---- MODULE Spec2Model ----
(***************************************************************************)
(* Model of app.py, the Grow A Garden stock API: scrape_stock_data (cache  *)
(* lookup, retry loop, response validation, page parsing, cache store)     *)
(* and the four endpoints that call it.                                    *)
(*                                                                         *)
(* Three specifications share the module:                                  *)
(*   Spec       request threads running scrape_stock_data against one      *)
(*              TTLCache and one clock;                                    *)
(*   SpecParse  the per-section item loop (lines 144-175) on every item    *)
(*              list up to MaxItems;                                       *)
(*   SpecKey    the bucket-key expression (line 28) on every timestamp up  *)
(*              to MaxStamp.                                               *)
(*                                                                         *)
(*   SpecCall   one thread serving one request after the other, on every   *)
(*              route and with every answer of the site.                   *)
(*                                                                         *)
(* Time is in whole seconds.  time.time() (line 28) and the timer of the   *)
(* TTLCache are one clock, now.  time.sleep(n) moves that clock on by n;   *)
(* Tick moves it on from outside.  Each numbered line of the cache lookup  *)
(* (28, 29, 31) reads the clock at its own moment.  An operation on the    *)
(* cache is one step.                                                      *)
(*                                                                         *)
(* Text is a sequence of tokens; " " is the whitespace token.  A quantity  *)
(* text is a sequence of single characters.                                *)
(***************************************************************************)
EXTENDS Integers, Sequences, FiniteSets, TLC

VARIABLES
    now,          \* the clock read by time.time() and by the cache's timer
    cache,        \* TTLCache: entries [key, value, expires], oldest first
    pc,           \* per thread: position in the request handler
    endpoint,     \* per thread: the route being served
    cache_key,    \* per thread: local cache_key (line 28)
    attempt,      \* per thread: loop variable of line 59
    excs,         \* per thread: str(e) of every exception caught in this call
    slept,        \* per thread: seconds passed to time.sleep in this call
    fetches,      \* per thread: calls of scraper.get in this call
    result,       \* per thread: value returned by scrape_stock_data
    response,     \* per thread: body handed to jsonify
    stored_before,\* per thread: an entry under cache_key existed at line 28
    prev_error_key, \* per thread: cache_key of its previous call if that ended in an error
    saw_challenge,  \* per thread: an attempt of this call got an HTML challenge body
    ncalls,       \* requests accepted so far
    ticks,        \* advances of the clock from outside the program so far
    items,        \* SpecParse: the <li> elements of one section
    idx,          \* SpecParse: position of the item loop
    item_dict,    \* SpecParse: item_dict (line 148), in insertion order
    stock_items,  \* SpecParse: stock_items (line 175)
    ppc,          \* SpecParse: "loop" or "done"
    stamp,        \* SpecKey: a timestamp t
    keys          \* SpecKey: the bucket keys computed from t, t+299, t+300

vars == <<now, cache, pc, endpoint, cache_key, attempt, excs, slept, fetches,
          result, response, stored_before, prev_error_key, saw_challenge,
          ncalls, ticks,
          items, idx, item_dict, stock_items, ppc, stamp, keys>>

mainVars == <<now, cache, pc, endpoint, cache_key, attempt, excs, slept,
              fetches, result, response, stored_before, prev_error_key,
              saw_challenge, ncalls, ticks>>
parseVars == <<items, idx, item_dict, stock_items, ppc>>
keyVars == <<stamp, keys>>

----------------------------------------------------------------------------
(* Bounds of the model *)

MaxTime == 305
MaxCalls == 3
MaxTicks == 2
MaxStall == 3
MaxItems == 3
MaxStamp == 900

Threads == {1, 2}

----------------------------------------------------------------------------
(* Program constants *)

ttl == 300
maxsize == 100
bucket_seconds == 300
max_retries_more == 3 + 1
max_retries == 3
retry_delay == 5
politeness_delay == 2

----------------------------------------------------------------------------
(* Text helpers *)

RECURSIVE LStrip(_)
LStrip(s) ==
    IF s = <<>> THEN <<>>
    ELSE IF Head(s) = " " THEN LStrip(Tail(s)) ELSE s

RECURSIVE RStrip(_)
RStrip(s) ==
    IF s = <<>> THEN <<>>
    ELSE IF s[Len(s)] = " " THEN RStrip(SubSeq(s, 1, Len(s) - 1)) ELSE s

\* str.strip()
Strip(s) == RStrip(LStrip(s))

\* str.lower() on the tokens the model uses
LowerTok(tok) ==
    CASE tok = "Checking Your Browser" -> "checking your browser"
      [] tok = "CF-Browser-Verification" -> "cf-browser-verification"
      [] tok = "Text/HTML" -> "text/html"
      [] OTHER -> tok

Lower(s) == [i \in 1..Len(s) |-> LowerTok(s[i])]

\* needle in text
Contains(text, needle) == \E i \in 1..Len(text) : text[i] = needle

Digits == {"0", "1", "2", "3", "4", "5", "6", "7", "8", "9"}

DigitVal(c) ==
    CASE c = "0" -> 0 [] c = "1" -> 1 [] c = "2" -> 2 [] c = "3" -> 3
      [] c = "4" -> 4 [] c = "5" -> 5 [] c = "6" -> 6 [] c = "7" -> 7
      [] c = "8" -> 8 [] c = "9" -> 9

RECURSIVE DigitRun(_)
\* the longest prefix of digits
DigitRun(s) ==
    IF s = <<>> \/ Head(s) \notin Digits THEN <<>>
    ELSE <<Head(s)>> \o DigitRun(Tail(s))

RECURSIVE SearchDigits(_)
\* re.search(r'\d+', text): the first maximal run of digits, <<>> for no match
SearchDigits(s) ==
    IF s = <<>> THEN <<>>
    ELSE IF Head(s) \in Digits THEN DigitRun(s) ELSE SearchDigits(Tail(s))

RECURSIVE ToInt(_)
\* int(match.group())
ToInt(ds) ==
    IF ds = <<>> THEN 0
    ELSE 10 * ToInt(SubSeq(ds, 1, Len(ds) - 1)) + DigitVal(ds[Len(ds)])

----------------------------------------------------------------------------
(* The item loop, lines 149-175 *)

\* position of name in item_dict, 0 when absent
Lookup(d, name) ==
    IF \E i \in 1..Len(d) : d[i].name = name
    THEN CHOOSE i \in 1..Len(d) : d[i].name = name
    ELSE 0

\* lines 168-171 with the merge dropped: a repeated name overwrites
AccumulateOverwrite(d, name, quantity) ==
    LET i == Lookup(d, name) IN
    IF i # 0
    THEN [d EXCEPT ![i].quantity = quantity]
    ELSE Append(d, [name |-> name, quantity |-> quantity])

\* lines 168-171
Accumulate(d, name, quantity) ==
    LET i == Lookup(d, name) IN
    IF i # 0
    THEN [d EXCEPT ![i].quantity = d[i].quantity + quantity]
    ELSE Append(d, [name |-> name, quantity |-> quantity])

\* one iteration of the loop body, lines 150-174: the new item_dict
ProcessItem(d, item) ==
    IF ~item.span THEN d                               \* 152-154
    ELSE IF item.contents = <<>> THEN d                \* 155 IndexError, 172
    ELSE IF item.contents[1].tag THEN d                \* 155 TypeError, 172
    ELSE IF ~item.qspan THEN d                         \* 158-160
    ELSE LET name == Strip(item.contents[1].text)
             quantity_text == Strip(item.qtext)
             quantity_match == SearchDigits(quantity_text)
         IN IF quantity_match = <<>> THEN d            \* 163-165
            ELSE Accumulate(d, name, ToInt(quantity_match))

RECURSIVE AggregateItems(_, _)
\* the whole loop of lines 148-175 on a list of items, starting from d
AggregateItems(d, lis) ==
    IF lis = <<>> THEN d
    ELSE AggregateItems(ProcessItem(d, Head(lis)), Tail(lis))

----------------------------------------------------------------------------
(* Page parsing, lines 88-196 *)

\* str.upper() on the tokens the model uses
UpperTok(tok) ==
    CASE tok = "Gear" -> "GEAR"
      [] tok = "Egg" -> "EGG"
      [] tok = "Seeds" -> "SEEDS"
      [] tok = "Stock" -> "STOCK"
      [] tok = "Cosmetics" -> "COSMETICS"
      [] OTHER -> tok

Upper(s) == [i \in 1..Len(s) |-> UpperTok(s[i])]

Unknown == <<"Unknown">>

\* lines 88-92
EmptyStockData ==
    [gear_stock |-> [items |-> <<>>, updates_in |-> Unknown],
     egg_stock |-> [items |-> <<>>, updates_in |-> Unknown],
     seeds_stock |-> [items |-> <<>>, updates_in |-> Unknown]]

\* lines 127-137
Countdown(section) ==
    IF section.yellow_p /\ section.countdown_span
    THEN Strip(section.countdown_text)
    ELSE Unknown

\* one iteration of the section loop, lines 120-184
ProcessSection(stock_data, section) ==
    IF ~section.h2 THEN stock_data                     \* 121-123
    ELSE IF ~section.ul THEN stock_data                \* 140-142
    ELSE LET title == Upper(Strip(section.title))
             stock == [items |-> AggregateItems(<<>>, section.lis),
                       updates_in |-> Countdown(section)]
         IN IF Contains(title, "GEAR")
            THEN [stock_data EXCEPT !.gear_stock = stock]
            ELSE IF Contains(title, "EGG")
            THEN [stock_data EXCEPT !.egg_stock = stock]
            ELSE IF Contains(title, "SEEDS")
            THEN [stock_data EXCEPT !.seeds_stock = stock]
            ELSE stock_data

RECURSIVE ProcessSections(_, _)
\* the loop of line 119
ProcessSections(stock_data, sections) ==
    IF sections = <<>> THEN stock_data
    ELSE ProcessSections(ProcessSection(stock_data, Head(sections)),
                         Tail(sections))

\* line 186 with the test dropped: nothing is ever reported empty
AllEmptyNever(stock_data) == FALSE

\* line 186: not any(stock_data[stock]['items'] for stock in stock_data)
AllEmpty(stock_data) ==
    /\ stock_data.gear_stock.items = <<>>
    /\ stock_data.egg_stock.items = <<>>
    /\ stock_data.seeds_stock.items = <<>>

DiscordHint == "contact the server administrator via Discord (https://discord.gg/kEpjAJQdPH)."

\* lines 71-75
InvalidContentType(content_type) ==
    [error |-> "Invalid response from server.",
     details |-> <<"Received non-HTML content (Content-Type: ">>
                 \o content_type \o <<").">>,
     suggestion |-> <<"The server may be blocking access or returning unexpected data. Contact the server administrator via Discord (https://discord.gg/kEpjAJQdPH).">>]

\* lines 82-86
BotChallenge ==
    [error |-> "Blocked by Cloudflare verification.",
     details |-> <<"The server requires browser verification, which cannot be bypassed with current setup.">>,
     suggestion |-> <<"Try using a proxy or ", DiscordHint>>]

\* lines 103-107
GridNotFound ==
    [error |-> "Stock grid not found on the page.",
     details |-> <<"The page structure may differ, or data is loaded dynamically.">>,
     suggestion |-> <<"Verify the website content in a browser or ", DiscordHint>>]

\* lines 113-117
NoSections ==
    [error |-> "No stock sections found in grid.",
     details |-> <<"The page structure may have changed.">>,
     suggestion |-> <<"Verify the website content or contact the server administrator.">>]

\* lines 188-192
EmptyResult ==
    [error |-> "No stock data found.",
     details |-> <<"The page structure may have changed or data is not available.">>,
     suggestion |-> <<"Verify the website content or ", DiscordHint>>]

\* lines 206-212
TransportFailure(msg) ==
    [error |-> "Failed to fetch or parse data after multiple attempts.",
     details |-> <<msg, ". The server may have returned invalid or non-HTML data.">>,
     suggestion |-> <<"Try using a proxy, verify the website content in a browser, or ", DiscordHint>>]

\* str(e) of the HTTPError of response.raise_for_status(), line 64
HTTPErrorMsg(status) ==
    IF status < 500 THEN "Client Error" ELSE "Server Error"

\* line 64: raise_for_status raises for 4xx and 5xx
StatusRaises(status) == 400 <= status /\ status < 600

\* line 69
NotHtml(content_type) == ~Contains(Lower(content_type), "text/html")

\* line 80
ChallengePage(text) ==
    \/ Contains(text, "cf-browser-verification")
    \/ Contains(Lower(text), "checking your browser")

\* lines 94-101: the grid, by class or by the heading fallback
GridFound(soup) == soup.grid_cols \/ soup.heading_div

\* result before the call returns, and Python's None
NoResult == [pending |-> TRUE]
NoneResult == [none |-> TRUE]

\* What one pass through the try block does with the outcome of scraper.get
\* (lines 63-196): raise (to line 198), return a dict, or store and return.
TryBody(o) ==
    IF o.exc # "" THEN [kind |-> "raise", msg |-> o.exc, value |-> NoneResult]
    ELSE IF StatusRaises(o.status)
    THEN [kind |-> "raise", msg |-> HTTPErrorMsg(o.status), value |-> NoneResult]
    ELSE IF NotHtml(o.content_type)
    THEN [kind |-> "return", msg |-> "", value |-> InvalidContentType(o.content_type)]
    ELSE IF ChallengePage(o.text)
    THEN [kind |-> "return", msg |-> "", value |-> BotChallenge]
    ELSE IF ~GridFound(o.soup)
    THEN [kind |-> "return", msg |-> "", value |-> GridNotFound]
    ELSE IF o.soup.sections = <<>>
    THEN [kind |-> "return", msg |-> "", value |-> NoSections]
    ELSE LET stock_data == ProcessSections(EmptyStockData, o.soup.sections)
         IN IF AllEmpty(stock_data)
            THEN [kind |-> "return", msg |-> "", value |-> EmptyResult]
            ELSE [kind |-> "store", msg |-> "", value |-> stock_data]

----------------------------------------------------------------------------
(* The cache: cachetools.TTLCache(maxsize=100, ttl=300), line 24 *)

\* line 28 with the window one second short
BucketKeyShort(t) == t \div (bucket_seconds - 1)

\* int(time.time() // 300), line 28
BucketKey(t) == t \div bucket_seconds

\* f"stock_data_{...}", line 28
CacheKey(t) == <<"stock_data_", BucketKey(t)>>

\* entries whose time has not run out at time t
Expire(c, t) == SelectSeq(c, LAMBDA e : t < e.expires)

\* cache_key in cache, line 29
CacheContains(c, k, t) ==
    \E i \in 1..Len(c) : c[i].key = k /\ t < c[i].expires

\* cache[cache_key], line 31, when the entry is there and live
CacheGet(c, k, t) ==
    LET i == CHOOSE i \in 1..Len(c) : c[i].key = k /\ t < c[i].expires
    IN c[i].value

RECURSIVE Evict(_)
\* popitem until one more entry fits
Evict(c) == IF Len(c) + 1 > maxsize THEN Evict(Tail(c)) ELSE c

\* line 195 with the old entry of the key kept beside the new one
CacheSetKeepOld(c, k, v, t) ==
    Append(Evict(Expire(c, t)), [key |-> k, value |-> v, expires |-> t + ttl])

\* cache[cache_key] = stock_data, line 195
CacheSet(c, k, v, t) ==
    LET live == Expire(c, t)
        has == \E i \in 1..Len(live) : live[i].key = k
        rest == SelectSeq(live, LAMBDA e : e.key # k)
        room == IF has THEN rest ELSE Evict(live)
    IN Append(room, [key |-> k, value |-> v, expires |-> t + ttl])

----------------------------------------------------------------------------
(* Inputs: list items, pages and outcomes of scraper.get *)

TextNode(text) == [tag |-> FALSE, text |-> text]
TagNode == [tag |-> TRUE, text |-> <<>>]

\* <li><span>name<span class="text-gray-400">qtext</span></span></li>
Li(name, qtext) ==
    [span |-> TRUE, contents |-> <<TextNode(name)>>, qspan |-> TRUE, qtext |-> qtext]

NameTexts == {<<"Watering Can">>, <<" ", "Watering Can", " ">>, <<"Trowel">>}
QtyTexts == {<<"x", "2">>, <<" ", "x", "3">>, <<"1", "0", "x", "7">>, <<"x">>}

ItemSet ==
    {[span |-> FALSE, contents |-> <<>>, qspan |-> FALSE, qtext |-> <<>>],
     [span |-> TRUE, contents |-> <<>>, qspan |-> TRUE, qtext |-> <<"x", "2">>],
     [span |-> TRUE, contents |-> <<TagNode>>, qspan |-> TRUE, qtext |-> <<"x", "2">>]}
    \cup {[span |-> TRUE, contents |-> <<TextNode(n)>>, qspan |-> FALSE, qtext |-> <<>>] :
            n \in NameTexts}
    \cup {Li(n, q) : n \in NameTexts, q \in QtyTexts}

ItemSeqs == UNION {[1..n -> ItemSet] : n \in 0..MaxItems}

Section(title, countdown, lis) ==
    [h2 |-> TRUE, title |-> title, yellow_p |-> TRUE, countdown_span |-> TRUE,
     countdown_text |-> countdown, ul |-> TRUE, lis |-> lis]

GearSection ==
    Section(<<" ", "Gear", " ", "Stock">>, <<"4m 10s", " ">>,
            <<Li(<<"Shovel">>, <<"x", "1">>),
              Li(<<"Watering Can">>, <<"x", "2">>),
              Li(<<"Watering Can">>, <<"x", "3">>)>>)

EggSection ==
    [Section(<<"Egg", " ", "Stock">>, <<"29m 02s">>,
             <<Li(<<"Common Egg">>, <<"x", "4">>)>>)
     EXCEPT !.countdown_span = FALSE]

SeedsSection ==
    Section(<<"SEEDS", " ", "STOCK">>, <<"1m 55s">>,
            <<Li(<<"Carrot">>, <<"x", "1", "0">>)>>)

CosmeticsSection ==
    Section(<<"Cosmetics">>, <<"3h">>, <<Li(<<"Bench">>, <<"x", "1">>)>>)

NoHeadingSection == [SeedsSection EXCEPT !.h2 = FALSE]
NoListSection == [GearSection EXCEPT !.ul = FALSE]
NoDigitsSection ==
    Section(<<"Egg", " ", "Stock">>, <<"29m 02s">>, <<Li(<<"Rare Egg">>, <<"x">>)>>)

Soup(grid_cols, heading_div, sections) ==
    [grid_cols |-> grid_cols, heading_div |-> heading_div, sections |-> sections]

PageShop == Soup(TRUE, TRUE, <<GearSection, EggSection>>)
PageRestock == Soup(FALSE, TRUE, <<CosmeticsSection, SeedsSection>>)
PageEmpty == Soup(TRUE, TRUE, <<NoHeadingSection, NoListSection, NoDigitsSection, CosmeticsSection>>)
PageNoSections == Soup(TRUE, FALSE, <<>>)
PageNoGrid == Soup(FALSE, FALSE, <<GearSection>>)

Pages == {PageShop, PageRestock, PageEmpty, PageNoSections, PageNoGrid}

Statuses == {200, 503}
ContentTypes == {<<"Text/HTML", "; charset=utf-8">>, <<"application/json">>, <<>>}
Texts == {<<"<html>">>, <<"<html>", "Checking Your Browser">>, <<"cf-browser-verification">>}
NetErrors == {"ReadTimeout", "ConnectionError"}

Responses ==
    [exc : {""}, status : Statuses, content_type : ContentTypes, text : Texts, soup : Pages]

Raised(msg) ==
    [exc |-> msg, status |-> 0, content_type |-> <<>>, text |-> <<>>, soup |-> PageNoGrid]

Answer(status, content_type, text, soup) ==
    [exc |-> "", status |-> status, content_type |-> content_type, text |-> text,
     soup |-> soup]

Outcomes == Responses \cup {Raised(msg) : msg \in NetErrors}

Html == <<"Text/HTML", "; charset=utf-8">>

CoreOutcomes ==
    {Raised("ReadTimeout"),
     Answer(200, Html, <<"<html>">>, PageShop),
     Answer(200, Html, <<"<html>">>, PageRestock),
     Answer(200, Html, <<"<html>">>, PageEmpty)}

----------------------------------------------------------------------------
(* The request threads *)

NoKey == <<"", 0>>
Endpoints == {"all", "gear", "egg", "seeds"}
\* The clock is advanced from outside by a stall of MaxStall seconds, or by a
\* quiet period that ends MaxStall seconds before a full bucket has gone by.
TickSteps == {MaxStall, bucket_seconds - MaxStall}

IsSnapshot(r) == DOMAIN r = {"gear_stock", "egg_stock", "seeds_stock"}
IsError(r) == "error" \in DOMAIN r

DefaultSection == [items |-> <<>>, updates_in |-> Unknown]

\* data.get(name, default)
DictGet(data, name, default) ==
    IF name \in DOMAIN data THEN data[name] ELSE default

\* the bodies of the four get methods after the call, lines 221, 229, 237, 245
EndpointBody(ep, data) ==
    CASE ep = "all" -> data
      [] ep = "gear" -> DictGet(data, "gear_stock", DefaultSection)
      [] ep = "egg" -> DictGet(data, "egg_stock", DefaultSection)
      [] ep = "seeds" -> DictGet(data, "seeds_stock", DefaultSection)

\* o is a response declared as HTML whose body holds the phrase
\* "checking your browser" in some capitalisation
HtmlChallengeBody(o) ==
    /\ o.exc = ""
    /\ \E i \in 1..Len(o.content_type) : o.content_type[i] \in {"text/html", "Text/HTML"}
    /\ \E i \in 1..Len(o.text) :
          o.text[i] \in {"checking your browser", "Checking Your Browser"}

\* line 201 with the bound off by one: no attempt is ever the last
RetryAlways(a) == a < max_retries

\* line 201: attempt < max_retries - 1
Retry(a) == a < max_retries - 1

\* line 59: range(max_retries) has a next value after a
LoopContinues(a) == a + 1 < max_retries

InitMain ==
    /\ now = 0
    /\ cache = <<>>
    /\ pc = [t \in Threads |-> "idle"]
    /\ endpoint = [t \in Threads |-> "all"]
    /\ cache_key = [t \in Threads |-> NoKey]
    /\ attempt = [t \in Threads |-> 0]
    /\ excs = [t \in Threads |-> <<>>]
    /\ slept = [t \in Threads |-> 0]
    /\ fetches = [t \in Threads |-> 0]
    /\ result = [t \in Threads |-> NoResult]
    /\ response = [t \in Threads |-> NoResult]
    /\ stored_before = [t \in Threads |-> FALSE]
    /\ prev_error_key = [t \in Threads |-> NoKey]
    /\ saw_challenge = [t \in Threads |-> FALSE]
    /\ ncalls = 0
    /\ ticks = 0

InitParseIdle ==
    /\ items = <<>>
    /\ idx = 1
    /\ item_dict = <<>>
    /\ stock_items = <<>>
    /\ ppc = "idle"

InitKeyIdle ==
    /\ stamp = 0
    /\ keys = <<>>

Init == InitMain /\ InitParseIdle /\ InitKeyIdle

\* A request arrives; the handler calls scrape_stock_data, which computes
\* cache_key (lines 220/228/236/244, then line 28).
Begin(t, ep) ==
    /\ pc[t] \in {"idle", "done", "raised"}
    /\ ncalls < MaxCalls
    /\ ncalls' = ncalls + 1
    /\ endpoint' = [endpoint EXCEPT ![t] = ep]
    /\ cache_key' = [cache_key EXCEPT ![t] = CacheKey(now)]
    /\ stored_before' = [stored_before EXCEPT ![t] =
            \E i \in 1..Len(cache) : cache[i].key = CacheKey(now)]
    /\ prev_error_key' = [prev_error_key EXCEPT ![t] =
            IF IsError(result[t]) THEN cache_key[t] ELSE NoKey]
    /\ saw_challenge' = [saw_challenge EXCEPT ![t] = FALSE]
    /\ attempt' = [attempt EXCEPT ![t] = 0]
    /\ excs' = [excs EXCEPT ![t] = <<>>]
    /\ slept' = [slept EXCEPT ![t] = 0]
    /\ fetches' = [fetches EXCEPT ![t] = 0]
    /\ result' = [result EXCEPT ![t] = NoResult]
    /\ response' = [response EXCEPT ![t] = NoResult]
    /\ pc' = [pc EXCEPT ![t] = "check"]
    /\ UNCHANGED <<now, cache, ticks>>

\* line 29: if cache_key in cache
Check(t) ==
    /\ pc[t] = "check"
    /\ pc' = [pc EXCEPT ![t] =
            IF CacheContains(cache, cache_key[t], now) THEN "read" ELSE "sleep"]
    /\ UNCHANGED <<now, cache, endpoint, cache_key, attempt, excs, slept,
                   fetches, result, response, stored_before, prev_error_key,
              saw_challenge, ncalls, ticks>>

\* line 31: return cache[cache_key]; KeyError when the entry has run out
Read(t) ==
    /\ pc[t] = "read"
    /\ IF CacheContains(cache, cache_key[t], now)
       THEN /\ result' = [result EXCEPT ![t] = CacheGet(cache, cache_key[t], now)]
            /\ pc' = [pc EXCEPT ![t] = "returned"]
       ELSE /\ result' = result
            /\ pc' = [pc EXCEPT ![t] = "raised"]
    /\ UNCHANGED <<now, cache, endpoint, cache_key, attempt, excs, slept,
                   fetches, response, stored_before, prev_error_key, saw_challenge, ncalls, ticks>>

\* line 62: time.sleep(2)
Sleep(t) ==
    /\ pc[t] = "sleep"
    /\ now + politeness_delay <= MaxTime
    /\ now' = now + politeness_delay
    /\ slept' = [slept EXCEPT ![t] = @ + politeness_delay]
    /\ pc' = [pc EXCEPT ![t] = "get"]
    /\ UNCHANGED <<cache, endpoint, cache_key, attempt, excs, fetches, result,
                   response, stored_before, prev_error_key, saw_challenge, ncalls, ticks>>

\* lines 63-196 and 198-212 up to the sleep: scraper.get answers with o
Get(t, o) ==
    /\ pc[t] = "get"
    /\ fetches' = [fetches EXCEPT ![t] = @ + 1]
    /\ LET r == TryBody(o) IN
       CASE r.kind = "store" ->
              /\ cache' = CacheSet(cache, cache_key[t], r.value, now)
              /\ result' = [result EXCEPT ![t] = r.value]
              /\ pc' = [pc EXCEPT ![t] = "returned"]
              /\ excs' = excs
         [] r.kind = "return" ->
              /\ cache' = cache
              /\ result' = [result EXCEPT ![t] = r.value]
              /\ pc' = [pc EXCEPT ![t] = "returned"]
              /\ excs' = excs
         [] r.kind = "raise" ->
              /\ cache' = cache
              /\ excs' = [excs EXCEPT ![t] = Append(@, r.msg)]
              /\ IF Retry(attempt[t])
                 THEN /\ pc' = [pc EXCEPT ![t] = "backoff"]
                      /\ result' = result
                 ELSE /\ pc' = [pc EXCEPT ![t] = "returned"]
                      /\ result' = [result EXCEPT ![t] = TransportFailure(r.msg)]
    /\ saw_challenge' = [saw_challenge EXCEPT ![t] = @ \/ HtmlChallengeBody(o)]
    /\ UNCHANGED <<now, endpoint, cache_key, attempt, slept, response,
                   stored_before, prev_error_key, ncalls, ticks>>

\* line 204: time.sleep(retry_delay), then the next iteration of line 59
Backoff(t) ==
    /\ pc[t] = "backoff"
    /\ now + retry_delay <= MaxTime
    /\ now' = now + retry_delay
    /\ slept' = [slept EXCEPT ![t] = @ + retry_delay]
    /\ IF LoopContinues(attempt[t])
       THEN /\ attempt' = [attempt EXCEPT ![t] = @ + 1]
            /\ pc' = [pc EXCEPT ![t] = "sleep"]
            /\ result' = result
       ELSE /\ attempt' = attempt
            /\ pc' = [pc EXCEPT ![t] = "returned"]
            /\ result' = [result EXCEPT ![t] = NoneResult]
    /\ UNCHANGED <<cache, endpoint, cache_key, excs, fetches, response,
                   stored_before, prev_error_key, saw_challenge, ncalls, ticks>>

\* lines 221, 229, 237, 245: the handler builds its body from the result
Respond(t) ==
    /\ pc[t] = "returned"
    /\ response' = [response EXCEPT ![t] = EndpointBody(endpoint[t], result[t])]
    /\ pc' = [pc EXCEPT ![t] = "done"]
    /\ UNCHANGED <<now, cache, endpoint, cache_key, attempt, excs, slept,
                   fetches, result, stored_before, prev_error_key, saw_challenge, ncalls, ticks>>

\* The clock advances by d seconds; more than MaxStall seconds go by at once
\* only while no thread is inside scrape_stock_data.
Tick(d) ==
    /\ now + d <= MaxTime
    /\ d > MaxStall => \A t \in Threads : pc[t] \in {"idle", "returned", "done", "raised"}
    /\ ticks < MaxTicks
    /\ ticks' = ticks + 1
    /\ now' = now + d
    /\ UNCHANGED <<cache, pc, endpoint, cache_key, attempt, excs, slept,
                   fetches, result, response, stored_before, prev_error_key,
                   saw_challenge, ncalls>>

\* The concurrent specification serves /all and draws the answers of the
\* site from CoreOutcomes.
Next ==
    \/ \E t \in Threads : Begin(t, "all") /\ UNCHANGED <<parseVars, keyVars>>
    \/ \E t \in Threads : Check(t) /\ UNCHANGED <<parseVars, keyVars>>
    \/ \E t \in Threads : Read(t) /\ UNCHANGED <<parseVars, keyVars>>
    \/ \E t \in Threads : Sleep(t) /\ UNCHANGED <<parseVars, keyVars>>
    \/ \E t \in Threads, o \in CoreOutcomes : Get(t, o) /\ UNCHANGED <<parseVars, keyVars>>
    \/ \E t \in Threads : Backoff(t) /\ UNCHANGED <<parseVars, keyVars>>
    \/ \E t \in Threads : Respond(t) /\ UNCHANGED <<parseVars, keyVars>>
    \/ \E d \in TickSteps : Tick(d) /\ UNCHANGED <<parseVars, keyVars>>

Spec == Init /\ [][Next]_vars

----------------------------------------------------------------------------
(* SpecCall: one thread serving requests one after the other, on every     *)
(* route and with every answer of the site in Outcomes                     *)

NextCall ==
    \/ \E ep \in Endpoints : Begin(1, ep) /\ UNCHANGED <<parseVars, keyVars>>
    \/ Check(1) /\ UNCHANGED <<parseVars, keyVars>>
    \/ Read(1) /\ UNCHANGED <<parseVars, keyVars>>
    \/ Sleep(1) /\ UNCHANGED <<parseVars, keyVars>>
    \/ \E o \in Outcomes : Get(1, o) /\ UNCHANGED <<parseVars, keyVars>>
    \/ Backoff(1) /\ UNCHANGED <<parseVars, keyVars>>
    \/ Respond(1) /\ UNCHANGED <<parseVars, keyVars>>
    \/ \E d \in TickSteps : Tick(d) /\ UNCHANGED <<parseVars, keyVars>>

SpecCall == Init /\ [][NextCall]_vars

----------------------------------------------------------------------------
(* SpecParse: the item loop of one section, one iteration per step *)

InitParse ==
    /\ InitMain /\ InitKeyIdle
    /\ items \in ItemSeqs
    /\ idx = 1
    /\ item_dict = <<>>
    /\ stock_items = <<>>
    /\ ppc = "loop"

\* lines 149-174, one item
LoopStep ==
    /\ ppc = "loop"
    /\ idx <= Len(items)
    /\ item_dict' = ProcessItem(item_dict, items[idx])
    /\ idx' = idx + 1
    /\ UNCHANGED <<items, stock_items, ppc, mainVars, keyVars>>

\* line 175: stock_items = list(item_dict.values())
LoopEnd ==
    /\ ppc = "loop"
    /\ idx > Len(items)
    /\ stock_items' = item_dict
    /\ ppc' = "done"
    /\ UNCHANGED <<items, idx, item_dict, mainVars, keyVars>>

NextParse == LoopStep \/ LoopEnd

SpecParse == InitParse /\ [][NextParse]_vars

----------------------------------------------------------------------------
(* SpecKey: the bucket key of line 28 at t, t+299 and t+300 *)

InitKey ==
    /\ InitMain /\ InitParseIdle
    /\ stamp \in 0..MaxStamp
    /\ keys = <<>>

ComputeKeys ==
    /\ keys = <<>>
    /\ keys' = <<BucketKey(stamp), BucketKey(stamp + 299), BucketKey(stamp + 300)>>
    /\ UNCHANGED <<stamp, mainVars, parseVars>>

NextKey == ComputeKeys

SpecKey == InitKey /\ [][NextKey]_vars

----------------------------------------------------------------------------
(* Properties *)

InCall(t) == pc[t] \in {"check", "read", "sleep", "get", "backoff"}
Ended(t) == pc[t] \in {"returned", "done"}

IsTransportFailure(r) ==
    IsError(r) /\ r.error = "Failed to fetch or parse data after multiple attempts."

LiveEntries == Expire(cache, now)

\* C1: a call that computes its bucket key when an entry is already stored
\* under that key performs no fetch and returns a stored snapshot: it never
\* reaches the retry loop, never raises, and what it returns is a snapshot.
C1_LaterCallServedFromCache ==
    \A t \in Threads :
        stored_before[t] =>
            /\ fetches[t] = 0
            /\ pc[t] \notin {"sleep", "get", "backoff", "raised"}
            /\ Ended(t) => IsSnapshot(result[t])

\* C2, state part: every value held in the cache is a snapshot with the three
\* category keys and at least one non-empty item list.
CacheValuesOK ==
    \A i \in 1..Len(cache) :
        /\ IsSnapshot(cache[i].value)
        /\ \E k \in {"gear_stock", "egg_stock", "seeds_stock"} :
              cache[i].value[k].items # <<>>

\* C2, step part: the step in which a call ends with an error dict leaves the
\* cache as it was.
ErrorKeepsCache ==
    \A t \in Threads :
        (InCall(t) /\ pc'[t] = "returned" /\ IsError(result'[t])) => cache' = cache

\* C2, consequence: a call whose thread's previous call ended in an error under
\* the same bucket key, with nothing live under that key, has fetched again by
\* the time it ends.
RefetchAfterError ==
    \A t \in Threads :
        (Ended(t) /\ prev_error_key[t] = cache_key[t]) => fetches[t] >= 1

C3_AtMostThreeAttempts ==
    \A t \in Threads :
        /\ fetches[t] <= 3
        /\ Len(excs[t]) <= fetches[t]
        /\ fetches[t] <= Len(excs[t]) + 1
        /\ pc[t] \in {"sleep", "get", "backoff"} => fetches[t] = Len(excs[t])
        /\ pc[t] \in {"sleep", "get"} => attempt[t] = fetches[t]
        /\ Ended(t) =>
              IF IsTransportFailure(result[t])
              THEN /\ fetches[t] = 3
                   /\ Len(excs[t]) = 3
                   /\ result[t].details[1] = excs[t][3]
              ELSE /\ IsSnapshot(result[t]) \/ IsError(result[t])
                   /\ fetches[t] = 0 \/ fetches[t] = Len(excs[t]) + 1

\* C3 witness: a transport failure after three attempts whose exceptions
\* differ, so that "the last" is told apart from the first.
C3_Witness ==
    /\ Ended(1)
    /\ IsTransportFailure(result[1])
    /\ fetches[1] = 3
    /\ excs[1][1] # excs[1][3]

\* C4 as stated: the sleeps of one call add up to at most 12 seconds.
C4_SleepAtMost12 == \A t \in Threads : slept[t] <= 12

\* C4 amended: the sleeps of one call add up to at most 16 seconds, 2 before
\* each of up to 3 attempts and 5 after each of the first two failures; a
\* call that ends in the transport failure has slept exactly 16.
C4_SleepAtMost16 ==
    \A t \in Threads :
        /\ slept[t] <= 16
        /\ slept[t] = 2 * (IF pc[t] = "sleep" THEN fetches[t]
                           ELSE IF pc[t] = "get" THEN fetches[t] + 1
                           ELSE fetches[t])
                      + 5 * (IF pc[t] \in {"sleep", "get"} THEN Len(excs[t])
                             ELSE IF pc[t] = "backoff" THEN Len(excs[t]) - 1
                             ELSE IF Len(excs[t]) = 3 THEN 2
                             ELSE Len(excs[t]))
        /\ (Ended(t) /\ IsTransportFailure(result[t])) => slept[t] = 16

\* C4 witness: three failed attempts, 16 seconds slept.
C4_Witness ==
    Ended(1) /\ IsTransportFailure(result[1]) /\ slept[1] = 16

\* C5: once an attempt of a call has received an HTML response whose body
\* holds "checking your browser", whatever its status code, the call has
\* returned the Cloudflare error, without a further attempt and with nothing
\* stored.
C5_ChallengeBodyMeansBotChallenge ==
    \A t \in Threads :
        saw_challenge[t] =>
            /\ Ended(t)
            /\ result[t] = BotChallenge
            /\ fetches[t] = Len(excs[t]) + 1

\* C6: when scrape_stock_data returned an error dict, the body the endpoint
\* hands to jsonify is that dict.
C6_ErrorsReachTheClient ==
    \A t \in Threads :
        (pc[t] = "done" /\ IsError(result[t])) =>
            /\ IsError(response[t])
            /\ response[t] = result[t]

\* C7: no exception escapes scrape_stock_data, and what it returns is a
\* snapshot or an error dict.
C7_AlwaysReturnsAValue ==
    \A t \in Threads :
        /\ pc[t] # "raised"
        /\ Ended(t) => IsSnapshot(result[t]) \/ IsError(result[t])

\* C8 as stated: at most one unexpired entry in the cache.
C8_AtMostOneLiveEntry == Len(LiveEntries) <= 1

\* C8 amended: the cache holds at most one entry per bucket key and at most
\* maxsize entries; live entries of different buckets may coexist, each live
\* for at most ttl seconds more and stored under a key no later than the
\* current bucket.
C8_OneEntryPerKey ==
    /\ Len(cache) <= 100
    /\ \A i, j \in 1..Len(cache) : cache[i].key = cache[j].key => i = j
    /\ \A i \in 1..Len(cache) :
          /\ cache[i].expires <= now + 300
          /\ cache[i].key[2] <= now \div 300
          /\ cache[i].key[1] = "stock_data_"

\* C8 witness: two live entries, of two buckets, at the same time.
C8_Witness ==
    /\ Len(LiveEntries) = 2
    /\ LiveEntries[1].key # LiveEntries[2].key

\* C9 as stated: for every t the keys of t and t+299 are equal and the keys
\* of t and t+300 differ.
C9_SameAt299DiffersAt300 ==
    keys # <<>> => (keys[1] = keys[2] /\ keys[1] # keys[3])

\* C9 amended: for every t the key of t+300 is the key of t plus one; the key
\* of t+299 equals the key of t exactly when t is a multiple of 300, and is
\* the key of t plus one otherwise.
C9_BucketKeySteps ==
    keys # <<>> =>
        /\ keys[3] = keys[1] + 1
        /\ keys[2] \in {keys[1], keys[1] + 1}
        /\ keys[2] = keys[1] <=> stamp % 300 = 0
        /\ 300 * keys[1] <= stamp /\ stamp < 300 * (keys[1] + 1)

\* C9 witness: a bucket start other than 0, where t and t+299 share the key.
C9_Witness ==
    keys # <<>> /\ stamp = 600 /\ keys[1] = keys[2] /\ keys[1] = 2

\* the items that carry a name and a quantity
IsValidItem(item) ==
    /\ item.span
    /\ item.contents # <<>>
    /\ ~item.contents[1].tag
    /\ item.qspan
    /\ \E i \in 1..Len(item.qtext) : item.qtext[i] \in Digits

ValidIndexes == {i \in 1..Len(items) : IsValidItem(items[i])}
NameOf(i) == Strip(items[i].contents[1].text)
QuantityOf(i) == ToInt(SearchDigits(items[i].qtext))

RECURSIVE SumOver(_)
SumOver(S) ==
    IF S = {} THEN 0
    ELSE LET i == CHOOSE i \in S : TRUE IN QuantityOf(i) + SumOver(S \ {i})

FirstIndex(name) ==
    CHOOSE i \in ValidIndexes :
        NameOf(i) = name /\ \A j \in ValidIndexes : NameOf(j) = name => i <= j

\* C10: the section's items hold each distinct name of the valid entries
\* exactly once, in order of first occurrence, with the sum of the quantities
\* of all valid entries of that name; invalid entries change nothing.
C10_MergedItems ==
    ppc = "done" =>
        /\ \A i, j \in 1..Len(stock_items) :
              stock_items[i].name = stock_items[j].name => i = j
        /\ {stock_items[i].name : i \in 1..Len(stock_items)}
              = {NameOf(i) : i \in ValidIndexes}
        /\ \A i \in 1..Len(stock_items) :
              stock_items[i].quantity =
                  SumOver({j \in ValidIndexes : NameOf(j) = stock_items[i].name})
        /\ \A i, j \in 1..Len(stock_items) :
              i < j => FirstIndex(stock_items[i].name) < FirstIndex(stock_items[j].name)

\* C10 witness: "Watering Can" 2 and 3 merged into 5, beside a skipped entry
\* and a second name.
C10_Witness ==
    /\ ppc = "done"
    /\ Len(items) = 3
    /\ ~IsValidItem(items[2])
    /\ stock_items = << [name |-> <<"Watering Can">>, quantity |-> 5] >>

====
